---------------------------- MODULE Spec2Model ----------------------------
(***************************************************************************)
(* Model of the portfolio page's client-side code:                         *)
(*   - src/room3d.js: the 3D room module (init3DRoom, toggleLight,         *)
(*     dispose3DRoom, the render loop and the window-resize handler);      *)
(*   - src/unnamed/part_000: the 3D room modal (lazy import of room3d.js)  *)
(*     and the particle field (Particle.update, the animation frame with   *)
(*     its connection pass, the pointer and resize handlers), the typing   *)
(*     effect of the hero title, and the DOMContentLoaded handler that     *)
(*     starts the page's features.                                         *)
(*                                                                         *)
(* Numbers.  Light intensities are kept in hundredths (0.08 is 8, 1.2 is   *)
(* 120).  Particle coordinates and speeds are kept in fixed point, in      *)
(* units of 1/Scale pixel; a coordinate is a record [nan, v] so that the   *)
(* IEEE-754 NaN the code can produce (0/0) is a value of the model, with   *)
(* the comparison and Math.min/Math.max behaviour JavaScript gives it.     *)
(*                                                                         *)
(* JavaScript's undefined and null are two distinct values, Undefined and  *)
(* Null; an object is a record with its own "kind".                        *)
(***************************************************************************)
EXTENDS Integers, Sequences, FiniteSets

VARIABLES
    \* ---- src/room3d.js, module-level state (lines 9-22)
    scene, camera, renderer, controls,
    animationId, isInitialized, roomLights, lightsOn,
    \* ---- the browser around room3d.js
    pendingFrames,      \* ids of the requestAnimationFrame callbacks of the room's animate
    nextFrameId,        \* the id the next requestAnimationFrame returns
    resizeListeners,    \* number of onResize closures registered on window
    containerSize,      \* <<clientWidth, clientHeight>> of the container element
    containerCanvases,  \* number of renderer canvases attached to the container
    \* ---- bookkeeping of the calls made on the module's exports
    constructions,      \* how many times the scene graph was built
    calls,              \* how many exported functions were called so far
    callLog,            \* the last two calls, each with its result and pre-state
    threw,              \* whether the last step ended in a thrown exception
    \* ---- src/unnamed/part_000, init3DRoomModal (lines 425-461)
    modalActive, bodyOverflow, roomLoaded,
    pendingImports,     \* import('./room3d.js') promises not yet settled
    importRequests,     \* how many times the module was requested
    initCalls,          \* how many times the modal invoked mod.init3DRoom
    opens,              \* how many times openModal has run
    \* ---- src/unnamed/part_000, the particle field (lines 10-114)
    particles, mouse, canvas, frame,
    particleCount,      \* const particleCount of initParticles (line 63)
    lines,              \* the connecting lines stroked by the last frame
    before,             \* what the last frame found: particles, mouse, canvas
    lastEvent,          \* the handler of the particle field that ran last
    \* ---- src/unnamed/part_000, the DOMContentLoaded handler (lines 466-477)
    dom,                \* the ids that document.getElementById finds
    startWidth,         \* window.innerWidth when the handler runs
    features,           \* how far each init function of the handler got
    \* ---- src/unnamed/part_000, initTypingEffect (lines 146-187)
    titleIndex, charIndex, isDeleting,
    textContent,        \* el.textContent of #heroTitle, a sequence of characters
    typeDelay           \* the delay in ms of the pending setTimeout(type, ...)

roomVars == <<scene, camera, renderer, controls, animationId, isInitialized,
              roomLights, lightsOn>>
envVars == <<pendingFrames, nextFrameId, resizeListeners, containerSize,
             containerCanvases, constructions>>
logVars == <<calls, callLog>>
modalVars == <<modalActive, bodyOverflow, roomLoaded, pendingImports,
               importRequests, initCalls, opens>>
particleVars == <<particles, mouse, canvas, frame, particleCount, lines, before,
                  lastEvent>>
startVars == <<dom, startWidth, features>>
typingVars == <<titleIndex, charIndex, isDeleting, textContent, typeDelay>>
vars == <<roomVars, envVars, logVars, threw, modalVars, particleVars, startVars,
          typingVars>>

-----------------------------------------------------------------------------
(* Bounds of the model *)

\* exported-function calls explored in one behaviour of the room
MaxCalls == 6
\* requestAnimationFrame ids handed out in one behaviour
MaxFrameId == 6
\* clicks on the open button explored in one behaviour of the modal
MaxOpens == 4
\* animation frames of the particle field explored in one behaviour, the
\* frame that initParticles itself runs (line 113) included
MaxFrames == 2
\* particles whose initial position and speed are chosen freely; the others
\* are placed by Scatter
NumParticles == 1
\* fixed-point resolution: coordinates and speeds are in units of 1/Scale pixel
Scale == 4

-----------------------------------------------------------------------------
(* JavaScript values *)

Undefined == [kind |-> "undefined"]
Null == [kind |-> "null"]
Number(n) == [kind |-> "number", value |-> n]

\* JavaScript truthiness of a module-level handle: if (animationId), if (renderer)
Truthy(v) == v # Undefined /\ v # Null /\ v # Number(0)

\* a THREE light object with its intensity in hundredths
Light(i) == [kind |-> "light", intensity |-> i]

\* the sizes the container element may have
ContainerSizes == {<<800, 600>>, <<400, 300>>}

-----------------------------------------------------------------------------
(* src/room3d.js *)

LightNames == {"ambient", "deskLight", "monitorLight", "ledLight",
               "ceilingLight", "fillLight"}

\* let roomLights = { ambient: null, ... }
roomLightsInitial == [n \in LightNames |-> Null]

\* a createLighting that adds the fill light to the group but not to the registry
createLightingForgettingFill ==
    [ambient |-> Light(40), deskLight |-> Light(120), monitorLight |-> Light(80),
     ledLight |-> Light(60), ceilingLight |-> Light(150), fillLight |-> Null]

\* the registry createLighting leaves: six new lights at their construction intensity
createLighting ==
    [ambient |-> Light(40), deskLight |-> Light(120), monitorLight |-> Light(80),
     ledLight |-> Light(60), ceilingLight |-> Light(150), fillLight |-> Light(30)]

\* the number of scene.add calls of init3DRoom
SceneChildren == 14

\* a toggle whose ON branch restores the desk lamp to a wrong preset
OnWritesWrongDesk ==
    << <<"ambient", 40>>, <<"deskLight", 100>>,
       <<"ceilingLight", 150>>, <<"fillLight", 30>> >>

\* toggleLight's writes, in program order, when the lights go ON
OnWrites ==
    << <<"ambient", 40>>, <<"deskLight", 120>>,
       <<"ceilingLight", 150>>, <<"fillLight", 30>> >>

\* a toggle whose OFF branch forgets the ceiling and fill lights
OffWritesDimOnly ==
    << <<"ambient", 8>>, <<"deskLight", 10>> >>

\* a toggle whose OFF branch also switches the monitor glow and the LED strip off
OffWritesEverything ==
    << <<"ambient", 8>>, <<"deskLight", 10>>, <<"ceilingLight", 0>>,
       <<"fillLight", 0>>, <<"monitorLight", 0>>, <<"ledLight", 0>> >>

\* toggleLight's writes, in program order, when the lights go OFF
OffWrites ==
    << <<"ambient", 8>>, <<"deskLight", 10>>,
       <<"ceilingLight", 0>>, <<"fillLight", 0>> >>

\* how many of the writes run before one hits a null light and throws
WritesDone(reg, writes) ==
    IF \E i \in 1..Len(writes) : reg[writes[i][1]] = Null
    THEN (CHOOSE i \in 1..Len(writes) :
             /\ reg[writes[i][1]] = Null
             /\ \A j \in 1..(i-1) : reg[writes[j][1]] # Null) - 1
    ELSE Len(writes)

\* the registry after the first k writes
ApplyWrites(reg, writes, k) ==
    [n \in LightNames |->
        IF \E i \in 1..k : writes[i][1] = n
        THEN LET i == CHOOSE i \in 1..k : writes[i][1] = n
             IN  [reg[n] EXCEPT !.intensity = writes[i][2]]
        ELSE reg[n]]

\* export function toggleLight(): the flag flips first, then the writes run
toggleLight ==
    LET on == ~lightsOn
        writes == IF on THEN OnWrites ELSE OffWrites
        k == WritesDone(roomLights, writes)
    IN  /\ lightsOn' = on
        /\ roomLights' = ApplyWrites(roomLights, writes, k)
        /\ threw' = (k < Len(writes))
        /\ UNCHANGED <<scene, camera, renderer, controls, animationId, isInitialized>>
        /\ UNCHANGED envVars

\* what toggleLight returns: lightsOn, or nothing when it threw
toggleLightResult ==
    LET writes == IF ~lightsOn THEN OnWrites ELSE OffWrites
    IN  IF WritesDone(roomLights, writes) < Len(writes)
        THEN "threw"
        ELSE IF ~lightsOn THEN "true" ELSE "false"

\* an init3DRoom without its guard
neverInitialized == FALSE

\* an init3DRoom guarded by "was ever built" instead of the flag dispose resets
everConstructed == constructions > 0

\* init3DRoom's guard: if (isInitialized) return;
alreadyInitialized == isInitialized

\* an animate that does not keep the id requestAnimationFrame returns
animateDroppingId(ctrl, rend) ==
    /\ animationId' = animationId
    /\ nextFrameId' = nextFrameId + 1
    /\ threw' = (ctrl.kind # "OrbitControls" \/ rend.kind # "WebGLRenderer")

\* animate(): animationId = requestAnimationFrame(animate), then update and render
\* (ctrl and rend are the controls and renderer it finds)
animate(ctrl, rend) ==
    /\ animationId' = Number(nextFrameId)
    /\ nextFrameId' = nextFrameId + 1
    /\ threw' = (ctrl.kind # "OrbitControls" \/ rend.kind # "WebGLRenderer")

\* export function init3DRoom(container), for a container that is an element
\* of the page (its clientWidth and clientHeight are containerSize)
init3DRoom ==
    IF alreadyInitialized
    THEN /\ threw' = FALSE
         /\ UNCHANGED <<roomVars, envVars>>
    ELSE /\ isInitialized' = TRUE
         /\ scene' = [kind |-> "Scene", children |-> SceneChildren]
         /\ camera' = [kind |-> "PerspectiveCamera", aspect |-> containerSize]
         /\ renderer' = [kind |-> "WebGLRenderer", size |-> containerSize]
         /\ containerCanvases' = containerCanvases + 1
         /\ controls' = [kind |-> "OrbitControls"]
         /\ roomLights' = createLighting
         /\ constructions' = constructions + 1
         /\ resizeListeners' = resizeListeners + 1
         /\ animate(controls', renderer')
         /\ pendingFrames' = pendingFrames \cup {nextFrameId}
         /\ UNCHANGED <<lightsOn, containerSize>>

\* a dispose3DRoom that also puts the light switch back to ON
dispose3DRoomResettingSwitch ==
    /\ IF Truthy(animationId)
       THEN /\ pendingFrames' = pendingFrames \ {animationId.value}
            /\ animationId' = Null
       ELSE UNCHANGED <<pendingFrames, animationId>>
    /\ IF Truthy(renderer)
       THEN containerCanvases' = containerCanvases - 1
       ELSE UNCHANGED containerCanvases
    /\ scene' = Null
    /\ camera' = Null
    /\ renderer' = Null
    /\ controls' = Null
    /\ isInitialized' = FALSE
    /\ lightsOn' = TRUE
    /\ threw' = FALSE
    /\ UNCHANGED <<roomLights, nextFrameId, resizeListeners,
                   containerSize, constructions>>

\* export function dispose3DRoom()
dispose3DRoom ==
    /\ IF Truthy(animationId)
       THEN /\ pendingFrames' = pendingFrames \ {animationId.value}
            /\ animationId' = Null
       ELSE UNCHANGED <<pendingFrames, animationId>>
    /\ IF Truthy(renderer)
       THEN containerCanvases' = containerCanvases - 1
       ELSE UNCHANGED containerCanvases
    /\ scene' = Null
    /\ camera' = Null
    /\ renderer' = Null
    /\ controls' = Null
    /\ isInitialized' = FALSE
    /\ threw' = FALSE
    /\ UNCHANGED <<roomLights, lightsOn, nextFrameId, resizeListeners,
                   containerSize, constructions>>

\* the browser runs one pending frame callback of the room: animate()
RoomFrame ==
    /\ nextFrameId <= MaxFrameId
    /\ \E id \in pendingFrames :
          pendingFrames' = (pendingFrames \ {id}) \cup {nextFrameId}
    /\ animate(controls, renderer)
    /\ UNCHANGED <<scene, camera, renderer, controls, isInitialized, roomLights,
                   lightsOn, resizeListeners, containerSize, containerCanvases,
                   constructions>>

\* the window is resized: every registered onResize closure runs
WindowResize ==
    \E size \in ContainerSizes :
        /\ containerSize' = size
        /\ IF resizeListeners = 0
           THEN threw' = FALSE /\ UNCHANGED <<camera, renderer>>
           ELSE IF camera.kind = "PerspectiveCamera"
                THEN /\ camera' = [camera EXCEPT !.aspect = size]
                     /\ renderer' = [renderer EXCEPT !.size = size]
                     /\ threw' = FALSE
                ELSE threw' = TRUE /\ UNCHANGED <<camera, renderer>>
        /\ UNCHANGED <<scene, controls, animationId, isInitialized, roomLights,
                       lightsOn, pendingFrames, nextFrameId, resizeListeners,
                       containerCanvases, constructions>>

-----------------------------------------------------------------------------
(* Calls of the module's exports, in any order (the room on its own) *)

\* true once createLighting has populated the registry
Built == \A n \in LightNames : roomLights[n] # Null

\* one entry of callLog: the call, how it ended, and the state it found
LogEntry(op, result) ==
    [op |-> op, result |-> result,
     preOn |-> lightsOn, preBuilt |-> Built, preInit |-> isInitialized,
     preBuilds |-> constructions]

\* callLog keeps the last two calls
Logged(op, result) ==
    /\ calls' = calls + 1
    /\ callLog' = IF Len(callLog) < 2
                  THEN Append(callLog, LogEntry(op, result))
                  ELSE <<callLog[2], LogEntry(op, result)>>

CallInit3DRoom ==
    /\ calls < MaxCalls
    /\ alreadyInitialized \/ nextFrameId <= MaxFrameId
    /\ init3DRoom
    /\ Logged("init3DRoom", "undefined")
    /\ UNCHANGED <<modalVars, particleVars, startVars, typingVars>>

CallToggleLight ==
    /\ calls < MaxCalls
    /\ toggleLight
    /\ Logged("toggleLight", toggleLightResult)
    /\ UNCHANGED <<modalVars, particleVars, startVars, typingVars>>

CallDispose3DRoom ==
    /\ calls < MaxCalls
    /\ dispose3DRoom
    /\ Logged("dispose3DRoom", "undefined")
    /\ UNCHANGED <<modalVars, particleVars, startVars, typingVars>>

\* a frame of the room's render loop
Frame ==
    /\ RoomFrame
    /\ UNCHANGED <<logVars, modalVars, particleVars, startVars, typingVars>>

\* a window resize event reaching the room's listeners
Resized ==
    /\ WindowResize
    /\ UNCHANGED <<logVars, modalVars, particleVars, startVars, typingVars>>

-----------------------------------------------------------------------------
(* src/unnamed/part_000: init3DRoomModal *)

\* an openModal that requests the module on every open
roomNeverRequested == FALSE

\* openModal's guard: if (!roomLoaded)
roomAlreadyRequested == roomLoaded

\* function openModal()
openModal ==
    /\ modalActive' = TRUE
    /\ bodyOverflow' = "hidden"
    /\ opens' = opens + 1
    /\ IF ~roomAlreadyRequested
       THEN /\ roomLoaded' = TRUE
            /\ pendingImports' = pendingImports + 1
            /\ importRequests' = importRequests + 1
       ELSE UNCHANGED <<roomLoaded, pendingImports, importRequests>>
    /\ UNCHANGED initCalls

\* function closeModal()
closeModal ==
    /\ modalActive' = FALSE
    /\ bodyOverflow' = ""
    /\ UNCHANGED <<roomLoaded, pendingImports, importRequests, initCalls, opens>>

\* click on #open3DRoom
OpenClick ==
    /\ opens < MaxOpens
    /\ openModal
    /\ threw' = FALSE
    /\ UNCHANGED <<roomVars, envVars, logVars, particleVars, startVars, typingVars>>

\* click on #close3DRoom or on #room3dOverlay
CloseClick ==
    /\ \E target \in {"close3DRoom", "room3dOverlay"} : closeModal
    /\ threw' = FALSE
    /\ UNCHANGED <<roomVars, envVars, logVars, particleVars, startVars, typingVars>>

\* keydown on the document: Escape closes an active modal
KeyDown ==
    /\ \E key \in {"Escape", "Enter"} :
          IF key = "Escape" /\ modalActive
          THEN closeModal
          ELSE UNCHANGED modalVars
    /\ threw' = FALSE
    /\ UNCHANGED <<roomVars, envVars, logVars, particleVars, startVars, typingVars>>

\* import('./room3d.js') is fulfilled: .then((mod) => mod.init3DRoom(wrapper))
ImportResolved ==
    /\ pendingImports > 0
    /\ alreadyInitialized \/ nextFrameId <= MaxFrameId
    /\ pendingImports' = pendingImports - 1
    /\ initCalls' = initCalls + 1
    /\ init3DRoom
    /\ UNCHANGED <<modalActive, bodyOverflow, roomLoaded, importRequests, opens>>
    /\ UNCHANGED <<logVars, particleVars, startVars, typingVars>>

\* import('./room3d.js') is rejected: no handler, nothing runs
ImportRejected ==
    /\ pendingImports > 0
    /\ pendingImports' = pendingImports - 1
    /\ threw' = TRUE
    /\ UNCHANGED <<modalActive, bodyOverflow, roomLoaded, importRequests,
                   initCalls, opens>>
    /\ UNCHANGED <<roomVars, envVars, logVars, particleVars, startVars, typingVars>>

-----------------------------------------------------------------------------
(* src/unnamed/part_000: the particle field *)

\* a finite coordinate, and the NaN that 0/0 produces
Fin(v) == [nan |-> FALSE, v |-> v]
NaN == [nan |-> TRUE, v |-> 0]

\* a + b, a < b, a > b on a coordinate a and a finite b (IEEE-754: NaN
\* propagates through arithmetic, and every comparison with NaN is false)
NumAdd(a, b) == IF a.nan THEN NaN ELSE Fin(a.v + b)
NumLt(a, b) == ~a.nan /\ a.v < b
NumGt(a, b) == ~a.nan /\ a.v > b

\* Math.min(b, a) and Math.max(b, a): NaN if an argument is NaN
MathMin(b, a) == IF a.nan THEN NaN ELSE Fin(IF b < a.v THEN b ELSE a.v)
MathMax(b, a) == IF a.nan THEN NaN ELSE Fin(IF b > a.v THEN b ELSE a.v)

\* the repulsion radius in pixels: if (dist < 120), (120 - dist) / 120
RepelRadius == 120
\* the repulsion factor in pixels: * force * 2
RepelStrength == 2

\* integer division rounding toward zero
TruncDiv(a, b) == IF a >= 0 THEN a \div b ELSE -((-a) \div b)

\* Heron's iteration downward from an estimate r >= sqrt(d2): the largest
\* integer whose square is at most d2
RECURSIVE SqrtFrom(_, _)
SqrtFrom(d2, r) ==
    LET next == (r + d2 \div r) \div 2
    IN  IF next >= r THEN r ELSE SqrtFrom(d2, next)

\* Math.sqrt, rounded down to the model's resolution
Sqrt(d2) ==
    IF d2 = 0
    THEN 0
    ELSE SqrtFrom(d2, IF d2 < 1024 * 1024 THEN 1024 ELSE d2)

\* a displacement that pulls the particle toward the pointer
PushToward(d, dist) ==
    -TruncDiv(d * (RepelRadius * Scale - dist) * RepelStrength * Scale,
              dist * RepelRadius * Scale)

\* lines 35-37: (d / dist) * force * 2 with force = (120 - dist) / 120
Push(d, dist) ==
    TruncDiv(d * (RepelRadius * Scale - dist) * RepelStrength * Scale,
             dist * RepelRadius * Scale)

\* lines 30-39: the displacement away from a present pointer at (mx, my)
Repel(x, y, mx, my) ==
    IF x.nan \/ y.nan
    THEN <<x, y>>                       \* dist is NaN, NaN < 120 is false
    ELSE LET dx == x.v - mx
             dy == y.v - my
             d2 == dx * dx + dy * dy
             R  == RepelRadius * Scale
         IN  IF d2 >= R * R
             THEN <<x, y>>
             ELSE IF d2 = 0
                  THEN <<NaN, NaN>>     \* dx / dist is 0 / 0
                  ELSE LET dist == Sqrt(d2)
                       IN  <<Fin(x.v + Push(dx, dist)), Fin(y.v + Push(dy, dist))>>

\* a bounds test that also flips the speed of a particle exactly on the border
CrossedInclusive(v, limit) == ~v.nan /\ (v.v <= 0 \/ v.v >= limit)

\* lines 42-45 on one axis: does the speed flip, and the clamped coordinate
Crossed(v, limit) == NumLt(v, 0) \/ NumGt(v, limit)
Clamp(v, limit) == MathMax(0, MathMin(limit, v))

\* Particle.update(mouse)
Update(p, m, c) ==
    LET x1 == NumAdd(p.x, p.speedX)
        y1 == NumAdd(p.y, p.speedY)
        pushed == IF m.x # Null /\ m.y # Null
                  THEN Repel(x1, y1, m.x.value, m.y.value)
                  ELSE <<x1, y1>>
        x2 == pushed[1]
        y2 == pushed[2]
    IN  [p EXCEPT
            !.x = Clamp(x2, c.width),
            !.y = Clamp(y2, c.height),
            !.speedX = IF Crossed(x2, c.width) THEN -p.speedX ELSE p.speedX,
            !.speedY = IF Crossed(y2, c.height) THEN -p.speedY ELSE p.speedY]

\* window.innerWidth x window.innerHeight, in pixels
WindowSizes == {<<768, 600>>, <<767, 400>>}

\* function resize(): the canvas takes the window's size
resize(size) == [width |-> size[1] * Scale, height |-> size[2] * Scale]

\* e.clientX, e.clientY of the mousemove events, in pixels: the pointer in
\* the middle of the wide window, a point that lies on both canvases
MousePositions == {<<768 \div 2, 600 \div 2>>}

\* const isMobile = window.innerWidth < 768
MobileBreakpoint == 768
\* const particleCount = isMobile ? 40 : 80
MobileCount == 40
DesktopCount == 80

\* a particle count chosen with <= in place of <
particleCountInclusive(width) ==
    IF width <= MobileBreakpoint THEN MobileCount ELSE DesktopCount

\* lines 62-63: the number of particles for a window width in pixels
particleCountFor(width) ==
    IF width < MobileBreakpoint THEN MobileCount ELSE DesktopCount

\* Particle.reset(): x in [0, width), y in [0, height), each speed in
\* (-0.4, 0.4), size in [0.5, 2.5), opacity (in hundredths) in [10, 60).
\* Three draws: at rest in the middle of the canvas; next to the corner and
\* moving out of the canvas; drifting away from the middle, two steps inside
\* the repulsion radius around it
Seeds(c) ==
    {[x |-> Fin(c.width \div 2), y |-> Fin(c.height \div 2),
      speedX |-> 0, speedY |-> 0, size |-> Scale, opacity |-> 10],
     [x |-> Fin(1), y |-> Fin(1),
      speedX |-> -1, speedY |-> -1, size |-> 2 * Scale, opacity |-> 35],
     [x |-> Fin(c.width \div 2 + RepelRadius * Scale - 2), y |-> Fin(c.height \div 2),
      speedX |-> 1, speedY |-> 0, size |-> Scale \div 2, opacity |-> 59]}

\* Particle.reset() for the i-th particle under one fixed run of
\* Math.random(): the particles lie 75 pixels apart in rows of ten (all inside
\* the smallest canvas), and those of one column have the same speed, so that
\* a particle and the second one below it stay exactly 150 pixels apart
Scatter(i, c) ==
    LET col == (i - 1) % 10
        row == (i - 1) \div 10
    IN  [x |-> Fin((13 + 75 * col) * Scale),
         y |-> Fin((17 + 75 * row) * Scale),
         speedX |-> (col % 3) - 1,
         speedY |-> ((col \div 3) % 3) - 1,
         size |-> (Scale \div 2) + (i % (2 * Scale)),
         opacity |-> 10 + ((i * 7) % 50)]

\* the pointer left the canvas, or never entered it
NoMouse == [x |-> Null, y |-> Null]

\* lines 89-92: particles.forEach(p => p.update(mouse))
UpdateAll(ps, m, c) == [i \in DOMAIN ps |-> Update(ps[i], m, c)]

\* the connection distance in pixels: if (dist < 150)
LinkDistance == 150
\* the alpha of a connection of length 0, in hundredths: 0.08 * (...)
LinkAlpha == 8

\* a connection test that also accepts a distance of exactly 150
LinkedInclusive(d2) == d2 <= (LinkDistance * Scale) * (LinkDistance * Scale)

\* line 100: dist < 150, on the squared distance
Linked(d2) == d2 < (LinkDistance * Scale) * (LinkDistance * Scale)

\* the squared distance of two particles; -1 when it is NaN
Dist2(a, b) ==
    IF a.x.nan \/ a.y.nan \/ b.x.nan \/ b.y.nan
    THEN -1
    ELSE (a.x.v - b.x.v) * (a.x.v - b.x.v) + (a.y.v - b.y.v) * (a.y.v - b.y.v)

\* line 104: 0.08 * (1 - dist / 150), in units of 1 / (100 * 150 * Scale)
Alpha(d2) == LinkAlpha * (LinkDistance * Scale - Sqrt(d2))

\* lines 95-109: one line for every pair i < j at a distance below 150
Connections(ps) ==
    UNION {{[i |-> i, j |-> j, alpha |-> Alpha(Dist2(ps[i], ps[j]))] :
               j \in {k \in (i + 1)..Len(ps) :
                         LET d2 == Dist2(ps[i], ps[k])
                         IN  d2 >= 0 /\ Linked(d2)}} :
           i \in 1..Len(ps)}

\* a connection pass that runs before the particles are updated
ConnectionInputStale(old, new) == old

\* the positions the connection pass reads: those the forEach just wrote
ConnectionInput(old, new) == new

\* function animate(), lines 85-112, on the particles ps
animate2D(ps, m, c) ==
    LET new == UpdateAll(ps, m, c)
    IN  [particles |-> new, lines |-> Connections(ConnectionInput(ps, new))]

\* initParticles, lines 56-114: resize(), the particles, the listeners and
\* the first animate()
InitParticles ==
    /\ \E size \in WindowSizes :
          /\ canvas = resize(size)
          /\ particleCount = particleCountFor(size[1])
    /\ mouse = NoMouse
    /\ \E seeds \in [1..NumParticles -> Seeds(canvas)] :
          LET created == [i \in 1..particleCount |->
                             IF i <= NumParticles THEN seeds[i]
                                                  ELSE Scatter(i, canvas)]
              first == animate2D(created, NoMouse, canvas)
          IN  /\ before = [particles |-> created, mouse |-> NoMouse,
                           canvas |-> canvas]
              /\ particles = first.particles
              /\ lines = first.lines
    /\ frame = 1
    /\ lastEvent = [type |-> "init"]

\* one animation frame: the requestAnimationFrame callback animate
Animate ==
    /\ frame < MaxFrames
    /\ frame' = frame + 1
    /\ before' = [particles |-> particles, mouse |-> mouse, canvas |-> canvas]
    /\ LET next == animate2D(particles, mouse, canvas)
       IN  particles' = next.particles /\ lines' = next.lines
    /\ lastEvent' = [type |-> "frame"]
    /\ UNCHANGED <<mouse, canvas, particleCount>>
    /\ UNCHANGED <<roomVars, envVars, logVars, threw, modalVars, startVars, typingVars>>

\* lines 76-79: the mousemove listener
mousemove(e) == [x |-> Number(e[1] * Scale), y |-> Number(e[2] * Scale)]

\* mousemove on the canvas
MouseMove ==
    /\ \E pos \in MousePositions :
          /\ mouse' = mousemove(pos)
          /\ lastEvent' = [type |-> "mousemove", pos |-> pos]
    /\ UNCHANGED <<particles, canvas, frame, particleCount, lines, before>>
    /\ UNCHANGED <<roomVars, envVars, logVars, threw, modalVars, startVars, typingVars>>

\* a mouseleave listener that clears one coordinate only
mouseleaveHalf == [x |-> Null, y |-> mouse.y]

\* lines 80-83: the mouseleave listener
mouseleave == [x |-> Null, y |-> Null]

\* mouseleave on the canvas
MouseLeave ==
    /\ mouse' = mouseleave
    /\ lastEvent' = [type |-> "mouseleave"]
    /\ UNCHANGED <<particles, canvas, frame, particleCount, lines, before>>
    /\ UNCHANGED <<roomVars, envVars, logVars, threw, modalVars, startVars, typingVars>>

\* a resize listener that creates the particles anew for the new width
particlesReseeded(size) ==
    [i \in 1..particleCountFor(size[1]) |-> Scatter(i, resize(size))]

\* a resize listener that pulls the particles into the new canvas
particlesClamped(size) ==
    [i \in DOMAIN particles |->
        [particles[i] EXCEPT !.x = Clamp(@, resize(size).width),
                             !.y = Clamp(@, resize(size).height)]]

\* lines 65-68: the particles after resize(), which sets the canvas only
particlesAfterResize(size) == particles

\* resize on the window
CanvasResize ==
    /\ \E size \in WindowSizes :
          /\ canvas' = resize(size)
          /\ particles' = particlesAfterResize(size)
          /\ lastEvent' = [type |-> "resize", size |-> size]
    /\ UNCHANGED <<mouse, frame, particleCount, lines, before>>
    /\ UNCHANGED <<roomVars, envVars, logVars, threw, modalVars, startVars, typingVars>>

-----------------------------------------------------------------------------
(* src/unnamed/part_000: page start-up *)

\* the ids the init functions look up with document.getElementById
Elements ==
    {"particlesCanvas", "cursorGlow", "navbar", "hamburger", "navLinks",
     "heroTitle", "timelineFill", "open3DRoom", "close3DRoom", "room3dModal",
     "room3dOverlay", "room3dCanvasWrapper"}

\* window.innerWidth at start-up, in pixels
StartWidths == {767, 768}

\* lines 467-476: the calls of the DOMContentLoaded handler, in order
Features ==
    <<"initParticles", "initCursorGlow", "initNavbar", "initHeroAnimations",
      "initTypingEffect", "initCounters", "initScrollReveals",
      "initTimelineFill", "initMagneticButtons", "init3DRoomModal">>

FeatureNames == {Features[k] : k \in DOMAIN Features}

\* the place of the feature f in the handler
FeatureIndex(f) == CHOOSE k \in DOMAIN Features : Features[k] = f

\* one init function, called with the elements d in the document and the
\* window w pixels wide: "initialized" if it sets its feature up, "skipped" if
\* it returns early, "threw" if it calls a method of null
Outcome(f, d, w) ==
    CASE f = "initParticles" ->                                     \* line 58
            IF "particlesCanvas" \in d THEN "initialized" ELSE "skipped"
      [] f = "initCursorGlow" ->                              \* lines 120-122
            IF w < 768 \/ "cursorGlow" \notin d THEN "skipped" ELSE "initialized"
      [] f = "initNavbar" ->                    \* line 364, hamburger unchecked
            IF "hamburger" \in d THEN "initialized" ELSE "threw"
      [] f = "initTypingEffect" ->                                 \* line 148
            IF "heroTitle" \in d THEN "initialized" ELSE "skipped"
      [] f = "initTimelineFill" ->                                 \* line 332
            IF "timelineFill" \in d THEN "initialized" ELSE "skipped"
      [] f = "initMagneticButtons" ->                              \* line 406
            IF w < 768 THEN "skipped" ELSE "initialized"
      [] f = "init3DRoomModal" ->   \* line 432; closeBtn, overlay unchecked
            IF "open3DRoom" \notin d \/ "room3dModal" \notin d
            THEN "skipped"
            ELSE IF "close3DRoom" \in d /\ "room3dOverlay" \in d
                 THEN "initialized"
                 ELSE "threw"
      [] OTHER -> "initialized"      \* selectors only: an empty list is fine

\* the first call of the handler that throws, or one past the last call
FirstThrow(d, w) ==
    LET throwing == {k \in DOMAIN Features : Outcome(Features[k], d, w) = "threw"}
    IN  IF throwing = {}
        THEN Len(Features) + 1
        ELSE CHOOSE k \in throwing : \A j \in throwing : k <= j

\* the handler, lines 466-477: the calls run in order; an exception leaves
\* the handler, and the calls after it are never made
Startup(d, w) ==
    [f \in FeatureNames |->
        IF FeatureIndex(f) <= FirstThrow(d, w) THEN Outcome(f, d, w) ELSE "pending"]

\* the document has been parsed, the handler has not run
PageParsed ==
    /\ dom \in SUBSET Elements
    /\ startWidth \in StartWidths
    /\ features = [f \in FeatureNames |-> "pending"]

\* the complete page, after the handler
PageLoaded == dom = Elements /\ features = Startup(dom, startWidth)

\* the DOMContentLoaded event
DOMContentLoaded ==
    /\ \A f \in FeatureNames : features[f] = "pending"
    /\ features' = Startup(dom, startWidth)
    /\ UNCHANGED <<dom, startWidth>>
    /\ UNCHANGED <<roomVars, envVars, logVars, threw, modalVars, particleVars,
                   typingVars>>

-----------------------------------------------------------------------------
(* src/unnamed/part_000: the typing effect *)

\* lines 149-155: the titles, character by character ("o'" is the accented o,
\* one UTF-16 unit like every other character here)
titles ==
    <<
       <<"A", "n", "a", "l", "i", "s", "t", "a", " ", "d", "e", " ", "T",
         "I">>,
       <<"D", "e", "v", "O", "p", "s", " ", "&", " ", "C", "I", "/", "C",
         "D">>,
       <<"I", "n", "f", "r", "a", "e", "s", "t", "r", "u", "c", "t", "u",
         "r", "a", " ", "C", "l", "o", "u", "d">>,
       <<"I", "n", "t", "e", "g", "r", "a", "c", "i", "o'", "n", " ", "S",
         "A", "P">>,
       <<"A", "u", "t", "o", "m", "a", "t", "i", "z", "a", "c", "i", "o'",
         "n", " ", "d", "e", " ", "P", "r", "o", "c", "e", "s", "o", "s">>
    >>

\* String.prototype.substring(0, n): n below 0 counts as 0, n above the
\* length as the length
Substring(t, n) ==
    SubSeq(t, 1, IF n < 0 THEN 0 ELSE IF n > Len(t) THEN Len(t) ELSE n)

\* a title change that skips a title
NextTitleSkipping(i) == (i + 2) % Len(titles)

\* line 178: titleIndex = (titleIndex + 1) % titles.length
NextTitle(i) == (i + 1) % Len(titles)

\* what #heroTitle may hold in the markup, before the first tick
InitialTexts == {<<>>, titles[2]}

\* initTypingEffect has run (lines 147-158, 186): the first tick is due in 2 s
InitTyping ==
    /\ titleIndex = 0
    /\ charIndex = 0
    /\ isDeleting = FALSE
    /\ textContent \in InitialTexts
    /\ typeDelay = 2000

\* the typing effect with an empty #heroTitle in the markup
TypingIdle == InitTyping /\ textContent = <<>>

\* function type(), lines 160-183: one tick of the effect
type ==
    LET current == titles[titleIndex + 1]      \* titleIndex counts from 0
        index == IF isDeleting THEN charIndex - 1 ELSE charIndex + 1
    IN  /\ textContent' = Substring(current, index)
        /\ charIndex' = index
        /\ IF ~isDeleting /\ index = Len(current)
           THEN /\ isDeleting' = TRUE
                /\ typeDelay' = 2000
                /\ UNCHANGED titleIndex
           ELSE IF isDeleting /\ index = 0
                THEN /\ isDeleting' = FALSE
                     /\ titleIndex' = NextTitle(titleIndex)
                     /\ typeDelay' = 500
                ELSE /\ typeDelay' = (IF isDeleting THEN 40 ELSE 80)
                     /\ UNCHANGED <<isDeleting, titleIndex>>

\* the pending setTimeout(type, speed) fires
Tick ==
    /\ type
    /\ UNCHANGED <<roomVars, envVars, logVars, threw, modalVars, particleVars,
                   startVars>>

-----------------------------------------------------------------------------
(* Initial states and specifications *)

\* room3d.js as loaded: lines 9-22
InitRoom ==
    /\ scene = Undefined
    /\ camera = Undefined
    /\ renderer = Undefined
    /\ controls = Undefined
    /\ animationId = Null
    /\ isInitialized = FALSE
    /\ roomLights = roomLightsInitial
    /\ lightsOn = TRUE
    /\ pendingFrames = {}
    /\ nextFrameId = 1
    /\ resizeListeners = 0
    /\ containerSize \in ContainerSizes
    /\ containerCanvases = 0
    /\ constructions = 0
    /\ calls = 0
    /\ callLog = <<>>
    /\ threw = FALSE

\* init3DRoomModal has run: let roomLoaded = false, the modal is closed
InitModal ==
    /\ modalActive = FALSE
    /\ bodyOverflow = ""
    /\ roomLoaded = FALSE
    /\ pendingImports = 0
    /\ importRequests = 0
    /\ initCalls = 0
    /\ opens = 0

\* the particle field, not running
NoParticles ==
    /\ particles = <<>>
    /\ mouse = [x |-> Null, y |-> Null]
    /\ canvas = [width |-> 0, height |-> 0]
    /\ frame = 0
    /\ particleCount = 0
    /\ lines = {}
    /\ before = [particles |-> <<>>, mouse |-> [x |-> Null, y |-> Null],
                 canvas |-> [width |-> 0, height |-> 0]]
    /\ lastEvent = [type |-> "none"]

\* room3d.js driven through its exports
InitRoomSpec ==
    /\ InitRoom /\ InitModal /\ NoParticles /\ startWidth = 768 /\ PageLoaded
    /\ TypingIdle

NextRoom ==
    \/ CallInit3DRoom
    \/ CallToggleLight
    \/ CallDispose3DRoom
    \/ Frame
    \/ Resized

SpecRoom == InitRoomSpec /\ [][NextRoom]_vars

\* the page: room3d.js driven by the modal
NextModal ==
    \/ OpenClick
    \/ CloseClick
    \/ KeyDown
    \/ ImportResolved
    \/ ImportRejected
    \/ Frame
    \/ Resized

SpecModal == InitRoomSpec /\ [][NextModal]_vars

\* the particle field on its own
InitParticlesSpec ==
    /\ InitRoom /\ InitModal /\ InitParticles
    /\ startWidth = canvas.width \div Scale /\ PageLoaded
    /\ TypingIdle

NextParticles ==
    \/ Animate
    \/ MouseMove
    \/ MouseLeave
    \/ CanvasResize

SpecParticles == InitParticlesSpec /\ [][NextParticles]_vars

\* the page from the parsed document to the end of the handler
InitStartup == InitRoom /\ InitModal /\ NoParticles /\ PageParsed /\ TypingIdle

NextStartup == DOMContentLoaded

SpecStartup == InitStartup /\ [][NextStartup]_vars

\* the typing effect on the complete page
InitTypingSpec ==
    /\ InitRoom /\ InitModal /\ NoParticles /\ startWidth = 768 /\ PageLoaded
    /\ InitTyping

NextTyping == Tick

SpecTyping == InitTypingSpec /\ [][NextTyping]_vars

\* every setTimeout(type, speed) fires: a pending tick is not postponed for ever
SpecTypingLive == SpecTyping /\ WF_vars(Tick)

-----------------------------------------------------------------------------
(* Properties *)

\* the most recent call in callLog
LastCall == callLog[Len(callLog)]

\* this step is a call of the export op
CallStep(op) == calls' = calls + 1 /\ callLog'[Len(callLog')].op = op

\* the last two calls were both op
LastTwoCalls(op) == Len(callLog) = 2 /\ callLog[1].op = op /\ callLog[2].op = op

\* a particle lies in the canvas c
InCanvas(p, c) ==
    /\ ~p.x.nan /\ 0 <= p.x.v /\ p.x.v <= c.width
    /\ ~p.y.nan /\ 0 <= p.y.v /\ p.y.v <= c.height

\* what a step leaves alone when it does nothing to the room
RoomUntouched == UNCHANGED <<roomVars, envVars>>

\* C1: after every frame's Particle.update, whatever the pointer state and the
\* canvas size, every particle has 0 <= x <= canvas.width and 0 <= y <= canvas.height.
C1_UpdateKeepsParticlesInCanvas ==
    [][frame' # frame =>
          \A i \in DOMAIN particles' : InCanvas(particles'[i], canvas')]_vars

\* C2: from a built scene with the lights ON, one toggleLight call returns false
\* and leaves ambient, desk, ceiling and fill at 0.08, 0.1, 0, 0, the monitor and
\* LED lights as they were.
C2_ToggleFromOnGoesOff ==
    [][(CallStep("toggleLight") /\ Built /\ lightsOn) =>
          /\ ~lightsOn'
          /\ callLog'[Len(callLog')].result = "false"
          /\ roomLights'.ambient = Light(8)
          /\ roomLights'.deskLight = Light(10)
          /\ roomLights'.ceilingLight = Light(0)
          /\ roomLights'.fillLight = Light(0)
          /\ roomLights'.monitorLight = roomLights.monitorLight
          /\ roomLights'.ledLight = roomLights.ledLight]_vars

\* C2's case: a toggle found the scene built and ON, and the lights are now OFF
C2_Witness ==
    /\ Len(callLog) >= 1
    /\ LastCall.op = "toggleLight" /\ LastCall.preBuilt /\ LastCall.preOn
    /\ ~lightsOn

\* C3: from a built scene with the lights ON, two consecutive toggleLight calls
\* end with lightsOn true, the second call returning true, and all six lights at
\* their construction intensities.
C3_TwoTogglesRestoreOn ==
    (LastTwoCalls("toggleLight") /\ callLog[1].preBuilt /\ callLog[1].preOn) =>
        /\ lightsOn
        /\ callLog[2].result = "true"
        /\ roomLights = createLighting

\* C3's case: two toggles in a row, the first made on a built scene that was ON
C3_Witness ==
    /\ LastTwoCalls("toggleLight") /\ callLog[1].preBuilt /\ callLog[1].preOn
    /\ callLog[1].result = "false"

\* C4: in every state, the monitor light and the LED light of a built scene
\* are at 0.8 and 0.6.
C4_MonitorAndLedFixed ==
    Built => /\ roomLights.monitorLight = Light(80)
             /\ roomLights.ledLight = Light(60)

\* C4's case: the lights were built, switched OFF, and the room disposed
C4_Witness ==
    /\ Built /\ ~lightsOn /\ ~isInitialized
    /\ roomLights.ceilingLight = Light(0)

\* C5: a toggleLight call made before any scene was built fails and changes
\* neither lightsOn nor any entry of the light registry.
C5_ToggleBeforeBuildIsNoOp ==
    [][(CallStep("toggleLight") /\ constructions = 0) =>
          /\ threw'
          /\ lightsOn' = lightsOn
          /\ roomLights' = roomLights]_vars

\* C6: of two init3DRoom calls in succession, the second changes nothing of the
\* room (scene, camera, renderer, controls, registry, listeners, render loop),
\* and when the first found the room uninitialized the two calls construct the
\* scene exactly once.
C6_SecondInitIsNoOp ==
    /\ [][(CallStep("init3DRoom") /\ Len(callLog) >= 1
             /\ LastCall.op = "init3DRoom") => RoomUntouched]_vars
    /\ []((LastTwoCalls("init3DRoom") /\ ~callLog[1].preInit) =>
             constructions = callLog[1].preBuilds + 1)

\* C6's case: init3DRoom was called twice in a row on a room not yet initialized
C6_Witness ==
    /\ LastTwoCalls("init3DRoom") /\ ~callLog[1].preInit
    /\ isInitialized /\ scene.children = SceneChildren

\* C7 as stated: once the scene has been constructed, every later init3DRoom
\* call is a no-op (the scene is constructed exactly once per page lifetime).
C7_ConstructedOnceEver ==
    [][(CallStep("init3DRoom") /\ constructions >= 1) => RoomUntouched]_vars

\* C7 amended: an init3DRoom call made while the room is initialized is a
\* no-op; one made while it is not initialized (never built, or disposed)
\* constructs the scene once; and nothing else ever constructs it.
C7_ConstructedOncePerInitialization ==
    /\ [][CallStep("init3DRoom") =>
             IF isInitialized
             THEN RoomUntouched
             ELSE /\ isInitialized'
                  /\ constructions' = constructions + 1
                  /\ scene'.kind = "Scene"]_vars
    /\ [][constructions' # constructions =>
             CallStep("init3DRoom") /\ ~isInitialized]_vars

\* C7's case: the scene was constructed a second time, after a dispose
C7_Witness ==
    /\ constructions = 2 /\ isInitialized
    /\ LastTwoCalls("init3DRoom") /\ callLog[1].preBuilds = 1 /\ ~callLog[1].preInit

\* C8 as stated: a dispose3DRoom call on a room that is not initialized raises
\* no error and leaves all module state unchanged.
C8_DisposeUninitializedChangesNothing ==
    [][(CallStep("dispose3DRoom") /\ ~isInitialized) =>
          ~threw' /\ RoomUntouched]_vars

\* C8 amended: a dispose3DRoom call on a room that is not initialized raises no
\* error and changes nothing but the four handles scene, camera, renderer and
\* controls, which it sets to null (they are undefined until the first init or
\* dispose); a dispose3DRoom call that follows a dispose3DRoom call changes
\* nothing at all.
C8_DisposeIdempotent ==
    /\ [][(CallStep("dispose3DRoom") /\ ~isInitialized) =>
             /\ ~threw'
             /\ UNCHANGED <<animationId, isInitialized, roomLights, lightsOn, envVars>>
             /\ \A h \in {scene, camera, renderer, controls} : h \in {Undefined, Null}
             /\ scene' = Null /\ camera' = Null /\ renderer' = Null
             /\ controls' = Null]_vars
    /\ [][(CallStep("dispose3DRoom") /\ Len(callLog) >= 1
             /\ LastCall.op = "dispose3DRoom") => RoomUntouched]_vars

\* C8's case: a built room was disposed, then disposed again
C8_Witness ==
    /\ LastTwoCalls("dispose3DRoom") /\ callLog[1].preInit /\ ~callLog[2].preInit
    /\ scene = Null /\ Built

\* C9: a frame callback of the room is pending exactly when the room is
\* initialized: exactly one while it is, the one animationId names, and none
\* while it is not.
C9_OneLoopIffInitialized ==
    /\ isInitialized =>
          animationId.kind = "number" /\ pendingFrames = {animationId.value}
    /\ ~isInitialized => pendingFrames = {} /\ animationId = Null

\* C9's case: the loop ran for some frames and the room was then disposed
C9_Witness ==
    /\ Len(callLog) >= 1 /\ LastCall.op = "dispose3DRoom" /\ LastCall.preInit
    /\ nextFrameId >= 3 /\ pendingFrames = {}

\* C10: the modal requests room3d.js on its first open only and invokes
\* init3DRoom at most once; before the first open nothing is requested,
\* loaded or initialized.
C10_LazyLoadOnce ==
    /\ [](importRequests <= 1 /\ initCalls <= 1)
    /\ [](opens = 0 =>
             /\ importRequests = 0 /\ pendingImports = 0 /\ initCalls = 0
             /\ ~isInitialized /\ constructions = 0)
    /\ [][importRequests' # importRequests => opens = 0 /\ opens' = 1]_vars
    /\ [][initCalls' # initCalls => importRequests = 1]_vars

\* C10's case: the modal was opened again after the room had been initialized
C10_Witness ==
    /\ opens >= 2 /\ modalActive
    /\ importRequests = 1 /\ initCalls = 1 /\ isInitialized

\* C11: the number of particles is fixed when initParticles returns: no frame,
\* mousemove, mouseleave or resize adds or removes a particle, so the array
\* always holds the particleCount of lines 62-63.
C11_ParticleCountFixed ==
    /\ [](Len(particles) = particleCount)
    /\ [][/\ particleCount' = particleCount
          /\ DOMAIN particles' = DOMAIN particles]_vars

\* a frame after the first one ran, the pointer is on the canvas, and the window
\* has just been resized below the breakpoint: the 80 particles are all there
C11_Witness ==
    /\ frame > 1
    /\ mouse # NoMouse
    /\ lastEvent.type = "resize"
    /\ canvas.width < 768 * Scale
    /\ Len(particles) = 80

\* C12: right after initParticles there are 40 particles if window.innerWidth,
\* which resize() has copied to canvas.width, is below 768, and 80 otherwise.
C12_CountByViewportWidth ==
    lastEvent.type = "init" =>
        /\ canvas.width < 768 * Scale => Len(particles) = 40
        /\ canvas.width >= 768 * Scale => Len(particles) = 80

\* initParticles has run in a window 767 pixels wide and created 40 particles
C12_Witness ==
    /\ lastEvent.type = "init"
    /\ canvas.width = 767 * Scale
    /\ Len(particles) = 40

\* C13: the pointer state is absent (x and y both null) or present (x and y both
\* numbers); mousemove sets it to the event's clientX and clientY, mouseleave
\* makes it absent, and neither a frame (with its particle updates) nor a resize
\* writes it.
C13_PointerAbsentOrPresent ==
    /\ [](\/ mouse.x = Null /\ mouse.y = Null
          \/ mouse.x.kind = "number" /\ mouse.y.kind = "number")
    /\ [][/\ lastEvent'.type = "mousemove" =>
                /\ mouse'.x = Number(lastEvent'.pos[1] * Scale)
                /\ mouse'.y = Number(lastEvent'.pos[2] * Scale)
          /\ lastEvent'.type = "mouseleave" =>
                mouse'.x = Null /\ mouse'.y = Null
          /\ lastEvent'.type \in {"frame", "resize"} => mouse' = mouse]_vars

\* the pointer moved onto the canvas at (384, 300) and the frame that read it
\* has run: the pointer is still there
C13_Witness ==
    /\ lastEvent.type = "frame"
    /\ before.mouse = mouse
    /\ mouse.x = Number(384 * Scale)
    /\ mouse.y = Number(300 * Scale)

\* two particles at finite positions less than 150 pixels apart
Near(a, b) ==
    /\ ~a.x.nan /\ ~a.y.nan /\ ~b.x.nan /\ ~b.y.nan
    /\ (a.x.v - b.x.v) * (a.x.v - b.x.v) + (a.y.v - b.y.v) * (a.y.v - b.y.v)
           < (150 * Scale) * (150 * Scale)

\* the alpha of the line l is 0.08 * (1 - d / 150) for the distance d of its
\* end points in ps, d read at the model's resolution of 1 / Scale pixel and
\* alpha in units of 1 / (100 * 150 * Scale)
AlphaByDistance(l, ps) ==
    LET a == ps[l.i]
        b == ps[l.j]
        d2 == (a.x.v - b.x.v) * (a.x.v - b.x.v) + (a.y.v - b.y.v) * (a.y.v - b.y.v)
        d == 150 * Scale - l.alpha \div 8
    IN  /\ l.alpha = 8 * (150 * Scale - d)
        /\ 0 <= d /\ d * d <= d2 /\ d2 < (d + 1) * (d + 1)

\* ls holds, for the positions ps, one line for each pair of particles less
\* than 150 pixels apart and nothing else
LinesDrawnFor(ls, ps) ==
    /\ \A l \in ls :
          /\ l.i \in DOMAIN ps /\ l.j \in DOMAIN ps /\ l.i < l.j
          /\ Near(ps[l.i], ps[l.j])
          /\ AlphaByDistance(l, ps)
    /\ Cardinality({<<l.i, l.j>> : l \in ls}) = Cardinality(ls)
    /\ Cardinality(ls) =
          Cardinality(UNION {{<<i, j>> : j \in {k \in (i + 1)..Len(ps) : Near(ps[i], ps[k])}} :
                             i \in 1..Len(ps)})

\* C14: the connection pass of a frame decides once for every unordered pair of
\* particles: it draws a line iff the pair is less than 150 apart, with alpha
\* 0.08 * (1 - d / 150), and draws none for a pair 150 or more apart.
C14_LinesByDistance ==
    lastEvent.type \in {"init", "frame"} => LinesDrawnFor(lines, particles)

\* a frame after the first one has drawn some lines, but not one for every pair
C14_Witness ==
    /\ lastEvent.type = "frame"
    /\ lines # {}
    /\ Cardinality(lines) < (Len(particles) * (Len(particles) - 1)) \div 2

Abs(v) == IF v < 0 THEN -v ELSE v

\* the particle p has numbers for coordinates
Finite(p) == ~p.x.nan /\ ~p.y.nan

\* the pointer state m holds a position
PointerAt(m) == m.x # Null /\ m.y # Null

\* the squared distance of the particle p from the pointer m
Far2(p, m) ==
    (p.x.v - m.x.value) * (p.x.v - m.x.value)
        + (p.y.v - m.y.value) * (p.y.v - m.y.value)

\* the particle p after its velocity step (lines 26-27)
Moved(p) == [p EXCEPT !.x = NumAdd(p.x, p.speedX), !.y = NumAdd(p.y, p.speedY)]

\* the particle p after an update in the canvas c with the pointer absent
WithoutPointer(p, c) == Update(p, NoMouse, c)

\* the push the code gives the moved particle q is smaller than the model's
\* resolution of 1 / Scale pixel on both axes
BelowResolution(q, m) ==
    /\ Far2(q, m) < (120 * Scale) * (120 * Scale)
    /\ \A d \in {Abs(q.x.v - m.x.value), Abs(q.y.v - m.y.value)} :
          d * (120 * Scale - Sqrt(Far2(q, m))) * 2 * Scale
              < Sqrt(Far2(q, m)) * 120 * Scale

\* C15 as stated: a particle less than 120 from a present pointer before an
\* update is farther from the pointer after it than the same update with the
\* pointer absent would have left it.
C15_RepelledWhenNearBefore ==
    (lastEvent.type = "frame" /\ PointerAt(before.mouse)) =>
        \A i \in DOMAIN particles :
            LET p == before.particles[i]
                m == before.mouse
            IN  (Finite(p) /\ Far2(p, m) < (120 * Scale) * (120 * Scale)
                     /\ ~BelowResolution(Moved(p), m)) =>
                    /\ Finite(particles[i])
                    /\ Far2(particles[i], m) > Far2(WithoutPointer(p, before.canvas), m)

\* C15, amended: the distance that counts is the one after the particle's
\* velocity step.  If it is below 120 and not 0, the particle ends, on each
\* axis, at least as far from the pointer as the same update with the pointer
\* absent would have left it; if it is 0, both coordinates become NaN; if it is
\* 120 or more, the update is the one with the pointer absent.
C15_RepelledWhenNearAfterStep ==
    (lastEvent.type = "frame" /\ PointerAt(before.mouse)) =>
        \A i \in DOMAIN particles :
            LET p == before.particles[i]
                m == before.mouse
                q == Moved(p)
                free == WithoutPointer(p, before.canvas)
                now == particles[i]
            IN  IF ~Finite(q) \/ Far2(q, m) >= (120 * Scale) * (120 * Scale)
                THEN now = free
                ELSE IF Far2(q, m) = 0
                     THEN now.x.nan /\ now.y.nan
                     ELSE /\ Finite(now)
                          /\ Abs(now.x.v - m.x.value) >= Abs(free.x.v - m.x.value)
                          /\ Abs(now.y.v - m.y.value) >= Abs(free.y.v - m.y.value)

\* a frame with the pointer present has pushed a particle that its velocity
\* step left within 120 of the pointer: it is now farther from the pointer
\* than the update with the pointer absent would have put it
C15_Witness ==
    /\ lastEvent.type = "frame"
    /\ PointerAt(before.mouse)
    /\ \E i \in DOMAIN particles :
          LET p == before.particles[i]
              m == before.mouse
          IN  /\ Finite(Moved(p))
              /\ Far2(Moved(p), m) < (120 * Scale) * (120 * Scale)
              /\ Finite(particles[i])
              /\ Far2(particles[i], m) > Far2(WithoutPointer(p, before.canvas), m)

\* the elements the feature f looks up by id
Required(f) ==
    CASE f = "initParticles" -> {"particlesCanvas"}
      [] f = "initCursorGlow" -> {"cursorGlow"}
      [] f = "initNavbar" -> {"navbar", "hamburger", "navLinks"}
      [] f = "initTypingEffect" -> {"heroTitle"}
      [] f = "initTimelineFill" -> {"timelineFill"}
      [] f = "init3DRoomModal" ->
            {"open3DRoom", "close3DRoom", "room3dModal", "room3dOverlay",
             "room3dCanvasWrapper"}
      [] OTHER -> {}

\* the features that a window below 768 pixels switches off
DesktopOnly == {"initCursorGlow", "initMagneticButtons"}

\* C16: whatever elements are missing when DOMContentLoaded fires, no init
\* function ends in an error, a feature that misses one of its elements is
\* skipped, and every feature that has its elements is initialized.
C16_MissingElementsSkipOnlyTheirFeature ==
    (\E f \in FeatureNames : features[f] # "pending") =>
        \A f \in FeatureNames :
            /\ features[f] \in {"initialized", "skipped"}
            /\ (Required(f) \subseteq dom /\ ~(f \in DesktopOnly /\ startWidth < 768))
                   => features[f] = "initialized"

\* the registry entry e references a light object
IsLight(e) == e # Null /\ e.kind = "light"

\* C17: whenever the room is initialized, and in every toggleLight call that
\* writes an intensity, all six entries of roomLights reference a light.
C17_RegistryPopulatedWhenToggled ==
    /\ [](isInitialized => \A n \in LightNames : IsLight(roomLights[n]))
    /\ [][(CallStep("toggleLight") /\ (roomLights' # roomLights \/ ~threw')) =>
             \A n \in LightNames : IsLight(roomLights[n]) /\ IsLight(roomLights'[n])]_vars

\* toggleLight has just switched the lights of an initialized room off
C17_Witness ==
    /\ calls > 0
    /\ LastCall.op = "toggleLight"
    /\ LastCall.preInit
    /\ isInitialized
    /\ ~threw
    /\ ~lightsOn
    /\ roomLights["ceilingLight"] = Light(0)

\* the position <<x, y>> of the particle p, updated with the pointer m, when
\* the bounds are tested (line 42): moved by its speed and pushed by the pointer
AtBoundsTest(p, m) ==
    LET q == Moved(p)
    IN  IF PointerAt(m)
        THEN Repel(q.x, q.y, m.x.value, m.y.value)
        ELSE <<q.x, q.y>>

\* the coordinate v lies strictly outside 0..limit (NaN lies nowhere)
Outside(v, limit) == ~v.nan /\ (v.v < 0 \/ v.v > limit)

\* C18: an update multiplies speedX (speedY) by -1 exactly when the moved x (y)
\* lies strictly outside the canvas and leaves it alone otherwise, so no frame,
\* pointer event or resize changes the magnitude of a particle's speed.
C18_SpeedFlipsOnlyOutside ==
    /\ [](lastEvent.type \in {"init", "frame"} =>
             \A i \in DOMAIN particles :
                 LET p == before.particles[i]
                     at == AtBoundsTest(p, before.mouse)
                 IN  /\ particles[i].speedX =
                            IF Outside(at[1], before.canvas.width)
                            THEN -1 * p.speedX ELSE p.speedX
                     /\ particles[i].speedY =
                            IF Outside(at[2], before.canvas.height)
                            THEN -1 * p.speedY ELSE p.speedY)
    /\ [][\A i \in DOMAIN particles :
              /\ Abs(particles'[i].speedX) = Abs(particles[i].speedX)
              /\ Abs(particles'[i].speedY) = Abs(particles[i].speedY)]_vars

\* a frame has moved a particle past the left border: its speedX, not 0, has
\* changed sign and the particle sits on the border
C18_Witness ==
    /\ lastEvent.type = "frame"
    /\ \E i \in DOMAIN particles :
          /\ before.particles[i].speedX # 0
          /\ particles[i].speedX = -1 * before.particles[i].speedX
          /\ particles[i].x = Fin(0)

\* C19: the resize listener sets canvas.width and canvas.height to the window's
\* size and changes nothing else: the particles (position, speed, size,
\* opacity), their number and the pointer state stay as they are, so particles
\* may lie outside the new canvas until the next frame.
C19_ResizeChangesCanvasOnly ==
    [][lastEvent'.type = "resize" =>
          /\ canvas' = [width |-> lastEvent'.size[1] * Scale,
                        height |-> lastEvent'.size[2] * Scale]
          /\ particles' = particles
          /\ mouse' = mouse
          /\ UNCHANGED <<frame, particleCount, lines, before>>]_vars

\* the window has shrunk since the last frame and a particle lies below the
\* new canvas
C19_Witness ==
    /\ lastEvent.type = "resize"
    /\ canvas.height < before.canvas.height
    /\ \E i \in DOMAIN particles :
          Finite(particles[i]) /\ particles[i].y.v > canvas.height

\* C20: a frame runs from its first particle update to its last line without a
\* pointer or resize listener running in between: it leaves the pointer state
\* and the canvas size as it found them, updates every particle with that one
\* pointer state and canvas size, and draws the lines for the updated positions.
C20_FrameRunsToCompletion ==
    [][frame' = frame + 1 =>
          /\ lastEvent'.type = "frame"
          /\ mouse' = mouse
          /\ canvas' = canvas
          /\ \A i \in DOMAIN particles :
                particles'[i] = Update(particles[i], mouse, canvas)
          /\ LinesDrawnFor(lines', particles')]_vars

\* the pointer moved onto the canvas, then a frame ran: it moved the particles
\* and drew lines, and pointer and canvas are as the frame found them
C20_Witness ==
    /\ lastEvent.type = "frame"
    /\ PointerAt(before.mouse)
    /\ mouse = before.mouse
    /\ canvas = before.canvas
    /\ particles # before.particles
    /\ lines # {}

\* ambient, desk, ceiling and fill lights are at the ON presets 0.4, 1.2, 1.5, 0.3
AtOnPresets ==
    /\ roomLights.ambient = Light(40)
    /\ roomLights.deskLight = Light(120)
    /\ roomLights.ceilingLight = Light(150)
    /\ roomLights.fillLight = Light(30)

\* ambient, desk, ceiling and fill lights are at the OFF presets 0.08, 0.1, 0, 0
AtOffPresets ==
    /\ roomLights.ambient = Light(8)
    /\ roomLights.deskLight = Light(10)
    /\ roomLights.ceilingLight = Light(0)
    /\ roomLights.fillLight = Light(0)

\* C21: while the room is initialized, whatever init3DRoom, toggleLight and
\* dispose3DRoom calls came before, lightsOn is true iff the ambient, desk,
\* ceiling and fill lights are at their ON presets and false iff they are at
\* their OFF presets.
C21_FlagAgreesWithLights ==
    isInitialized =>
        /\ lightsOn <=> AtOnPresets
        /\ ~lightsOn <=> AtOffPresets

\* C22: the room has at most one resize listener on the window and none while
\* it is not initialized, so no state has a listener that a resize event would
\* run against a camera that is not there.
C22_OneResizeHandlerNoneAfterDispose ==
    /\ resizeListeners <= 1
    /\ ~isInitialized => resizeListeners = 0
    /\ resizeListeners > 0 => camera.kind = "PerspectiveCamera"

\* titles[k] (counted from 0) is displayed in full
Full(k) == textContent = titles[k + 1]

\* C23: after every tick of the typing effect 0 <= charIndex <= length of
\* titles[titleIndex] and the displayed text is the prefix of length charIndex
\* of the current title; titleIndex changes only by one modulo the number of
\* titles, and only on a tick that brings charIndex to 0 while deleting; every
\* title is displayed in full again and again, only while it is the current
\* title, and the full display of a title leads to that of the next in the list.
C23_TypingCyclesThroughTitles ==
    /\ [][/\ 0 <= charIndex'
          /\ charIndex' <= Len(titles[titleIndex' + 1])
          /\ textContent' = SubSeq(titles[titleIndex' + 1], 1, charIndex')
          /\ \A k \in 0 .. Len(titles) - 1 : Full(k)' => titleIndex' = k]_typingVars
    /\ [][titleIndex' # titleIndex =>
              /\ titleIndex' = (titleIndex + 1) % Len(titles)
              /\ isDeleting /\ charIndex' = 0]_typingVars
    /\ \A k \in 0 .. Len(titles) - 1 :
           /\ []<>(Full(k) /\ titleIndex = k)
           /\ (Full(k) /\ titleIndex = k)
                  ~> (Full((k + 1) % Len(titles))
                          /\ titleIndex = (k + 1) % Len(titles))

\* the last title of the list is displayed in full, all the others having been
C23_Witness ==
    /\ titleIndex = Len(titles) - 1
    /\ Full(titleIndex)
    /\ charIndex = Len(titles[titleIndex + 1])
    /\ isDeleting

=============================================================================
